---- MODULE Spec2Model ----
(***************************************************************************)
(* txtoml: translation of Poetry version constraints to pip requirement    *)
(* specifiers (constrain and its inner caret), and the txtoml command that *)
(* writes them to a requirements file.                                     *)
(*                                                                         *)
(* A Python str is modelled as a sequence of one-character strings, so     *)
(* that stripping, counting, matching, parsing and formatting are computed *)
(* character by character as the library functions compute them.  A dict   *)
(* is modelled as a sequence of entries in insertion order with unique     *)
(* keys.                                                                   *)
(***************************************************************************)
EXTENDS Integers, Sequences, FiniteSets, TLC

\* ------------------------------------------------------------------ bounds
\* Largest number written as a component of a generated version.
MaxNumber == 10
\* Largest number of entries of a generated dependency table.
MaxEntries == 2
\* The number of components the caret notation pads to: 2 dots, 3 components.
PadDots == 2

\* ----------------------------------------------------------- str helpers
Digits == {"0", "1", "2", "3", "4", "5", "6", "7", "8", "9"}

DigitValue(c) ==
    CASE c = "0" -> 0 [] c = "1" -> 1 [] c = "2" -> 2 [] c = "3" -> 3
      [] c = "4" -> 4 [] c = "5" -> 5 [] c = "6" -> 6 [] c = "7" -> 7
      [] c = "8" -> 8 [] c = "9" -> 9

DigitChar(d) ==
    CASE d = 0 -> "0" [] d = 1 -> "1" [] d = 2 -> "2" [] d = 3 -> "3"
      [] d = 4 -> "4" [] d = 5 -> "5" [] d = 6 -> "6" [] d = 7 -> "7"
      [] d = 8 -> "8" [] d = 9 -> "9"

\* str.lstrip(chars): drops every leading character that is in chars.
RECURSIVE lstrip(_, _)
lstrip(s, chars) ==
    IF s # <<>> /\ Head(s) \in chars THEN lstrip(Tail(s), chars) ELSE s

\* str.count(c) for a one-character c.
RECURSIVE count(_, _)
count(s, c) ==
    IF s = <<>> THEN 0
    ELSE (IF Head(s) = c THEN 1 ELSE 0) + count(Tail(s), c)

\* s * n: n copies of s, the empty str when n <= 0.
RECURSIVE repeat(_, _)
repeat(s, n) == IF n <= 0 THEN <<>> ELSE s \o repeat(s, n - 1)

\* int(s) of a non-empty str of digits (leading zeros allowed).
RECURSIVE int(_)
int(s) ==
    IF s = <<>> THEN 0
    ELSE int(SubSeq(s, 1, Len(s) - 1)) * 10 + DigitValue(s[Len(s)])

\* str(n) of a non-negative int: its decimal digits, no leading zero.
RECURSIVE str(_)
str(n) ==
    IF n < 10 THEN <<DigitChar(n)>>
    ELSE str(n \div 10) \o <<DigitChar(n % 10)>>

\* The longest prefix of s made of digits.
RECURSIVE digitRun(_)
digitRun(s) ==
    IF s # <<>> /\ Head(s) \in Digits
    THEN <<Head(s)>> \o digitRun(Tail(s)) ELSE <<>>

\* re.findall("\d+", s): the maximal runs of digits of s, left to right.
RECURSIVE findall(_)
findall(s) ==
    IF s = <<>> THEN <<>>
    ELSE IF Head(s) \in Digits
         THEN LET run == digitRun(s)
              IN  <<run>> \o findall(SubSeq(s, Len(run) + 1, Len(s)))
         ELSE findall(Tail(s))

\* sep.join(parts)
RECURSIVE join(_, _)
join(sep, parts) ==
    IF parts = <<>> THEN <<>>
    ELSE IF Len(parts) = 1 THEN parts[1]
         ELSE parts[1] \o sep \o join(sep, Tail(parts))

\* str.startswith(c) for a one-character c.
startswith(s, c) == s # <<>> /\ Head(s) = c

\* str.replace(old, new) for a one-character old: every occurrence.
RECURSIVE replace(_, _, _)
replace(s, old, new) ==
    IF s = <<>> THEN <<>>
    ELSE (IF Head(s) = old THEN new ELSE <<Head(s)>>)
         \o replace(Tail(s), old, new)

\* ----------------------------------------------------------------- caret
\* lower_bound padding with one ".0" too many.
lower_boundPadsThree(version) ==
    LET v == lstrip(version, {"^"})
    IN  v \o repeat(<<".", "0">>, PadDots + 1 - count(v, "."))

\* version + (".0" * (2 - version.count("."))), after the lstrip.
lower_bound(version) ==
    LET v == lstrip(version, {"^"})
    IN  v \o repeat(<<".", "0">>, PadDots - count(v, "."))

\* [int(i) for i in re.findall("\d+", lower_bound)]
numbers(version) ==
    LET found == findall(lower_bound(version))
    IN  [i \in 1..Len(found) |-> int(found[i])]

\* The indices of ns whose number is positive.
positive(ns) == {i \in 1..Len(ns) : ns[i] > 0}

\* bump without the line that zeroes the numbers after the incremented one.
bumpNoReset(ns) ==
    IF positive(ns) # {}
    THEN LET index == CHOOSE i \in positive(ns) : \A j \in positive(ns) : i <= j
         IN  [exc |-> "none", value |-> [ns EXCEPT ![index] = ns[index] + 1]]
    ELSE IF ns = <<>>
         THEN [exc |-> "IndexError", value |-> <<>>]
         ELSE [exc |-> "none",
               value |-> [ns EXCEPT ![Len(ns)] = ns[Len(ns)] + 1]]

\* bump zeroing from the incremented number on (i >= index for i > index).
bumpResetsFromIndex(ns) ==
    IF positive(ns) # {}
    THEN LET index == CHOOSE i \in positive(ns) : \A j \in positive(ns) : i <= j
         IN  [exc |-> "none",
              value |-> [i \in 1..Len(ns) |-> IF i >= index THEN 0 ELSE ns[i]]]
    ELSE IF ns = <<>>
         THEN [exc |-> "IndexError", value |-> <<>>]
         ELSE [exc |-> "none",
               value |-> [ns EXCEPT ![Len(ns)] = ns[Len(ns)] + 1]]

\* bump whose else branch increments numbers[0] for numbers[-1].
bumpElseFirst(ns) ==
    IF positive(ns) # {}
    THEN LET index == CHOOSE i \in positive(ns) : \A j \in positive(ns) : i <= j
         IN  [exc |-> "none",
              value |-> [i \in 1..Len(ns) |->
                           IF i > index THEN 0
                           ELSE IF i = index THEN ns[i] + 1 ELSE ns[i]]]
    ELSE IF ns = <<>>
         THEN [exc |-> "IndexError", value |-> <<>>]
         ELSE [exc |-> "none", value |-> [ns EXCEPT ![1] = ns[1] + 1]]

\* The for/else over numbers: the first positive number is incremented and
\* the ones after it zeroed; with no positive number the last is incremented.
\* On an empty list the else branch indexes numbers[-1]: IndexError.
bump(ns) ==
    IF positive(ns) # {}
    THEN LET index == CHOOSE i \in positive(ns) : \A j \in positive(ns) : i <= j
         IN  [exc |-> "none",
              value |-> [i \in 1..Len(ns) |->
                           IF i > index THEN 0
                           ELSE IF i = index THEN ns[i] + 1 ELSE ns[i]]]
    ELSE IF ns = <<>>
         THEN [exc |-> "IndexError", value |-> <<>>]
         ELSE [exc |-> "none",
               value |-> [ns EXCEPT ![Len(ns)] = ns[Len(ns)] + 1]]

\* ".".join([str(i) for i in numbers])
upper_bound(ns) == join(<<".">>, [i \in 1..Len(ns) |-> str(ns[i])])

\* f">={lower_bound}, <{upper_bound}"
caret(version) ==
    LET bumped == bump(numbers(version))
    IN  IF bumped.exc # "none"
        THEN [exc |-> bumped.exc, value |-> <<>>]
        ELSE [exc |-> "none",
              value |-> <<">", "=">> \o lower_bound(version)
                        \o <<",", " ", "<">> \o upper_bound(bumped.value)]

\* ------------------------------------------------------------- constrain
VARIABLES
    dependencies,          \* the dict passed to constrain
    pc,                    \* where the call stands: call, loop, returned, raised
    index,                 \* position of the for loop in dependencies.items()
    constrained_packages,  \* the dict constrain builds and returns
    exc,                   \* the exception the call raised, or none
    first,                 \* the first ended call: its argument and outcome
    pyproject,             \* the parsed source manifest
    include_dev,           \* the --include-dev flag
    requirements,          \* the output file: opened or not, lines written
    translated,            \* txtoml's dict of translated tables, regular and dev
    written,               \* entries of the current table already written
    at                     \* where the txtoml command stands

constrainVars == <<dependencies, pc, index, constrained_packages, exc>>
callVars == <<first>>
cliVars == <<pyproject, include_dev, requirements, translated, written, at>>
vars == <<dependencies, pc, index, constrained_packages, exc, first,
          pyproject, include_dev, requirements, translated, written, at>>

\* The key constrain leaves out.
Reserved == "python"

\* d[key] = value on a dict kept in insertion order.
setitem(d, key, value) ==
    IF \E i \in 1..Len(d) : d[i].package = key
    THEN [i \in 1..Len(d) |->
            IF d[i].package = key THEN [package |-> key, version |-> value]
            ELSE d[i]]
    ELSE Append(d, [package |-> key, version |-> value])

\* constraint without the elif: a tilde version is pinned like an exact one.
constraintNoTilde(version) ==
    IF startswith(version, "^") THEN caret(version)
    ELSE [exc |-> "none", value |-> <<"=", "=">> \o version]

\* The if/elif/else on the prefix of version.
constraint(version) ==
    IF startswith(version, "^") THEN caret(version)
    ELSE IF startswith(version, "~")
         THEN [exc |-> "none", value |-> replace(version, "~", <<"~", "=">>)]
         ELSE [exc |-> "none", value |-> <<"=", "=">> \o version]

\* body without the test that leaves the reserved key out.
bodyKeepsReserved(packages, entry) ==
    LET c == constraint(entry.version)
    IN  IF c.exc # "none"
        THEN [exc |-> c.exc, value |-> packages]
        ELSE [exc |-> "none",
              value |-> setitem(packages, entry.package, c.value)]

\* body with the assignment indented into the else branch: only an exact
\* version is stored.
bodyAssignsInElse(packages, entry) ==
    IF entry.package # Reserved
    THEN LET c == constraint(entry.version)
         IN  IF c.exc # "none"
             THEN [exc |-> c.exc, value |-> packages]
             ELSE IF startswith(entry.version, "^")
                     \/ startswith(entry.version, "~")
                  THEN [exc |-> "none", value |-> packages]
                  ELSE [exc |-> "none",
                        value |-> setitem(packages, entry.package, c.value)]
    ELSE [exc |-> "none", value |-> packages]

\* One pass of the for loop's body over an entry of dependencies.
body(packages, entry) ==
    IF entry.package # Reserved
    THEN LET c == constraint(entry.version)
         IN  IF c.exc # "none"
             THEN [exc |-> c.exc, value |-> packages]
             ELSE [exc |-> "none",
                   value |-> setitem(packages, entry.package, c.value)]
    ELSE [exc |-> "none", value |-> packages]

\* The whole loop from position i with packages built so far.
RECURSIVE loop(_, _, _)
loop(deps, i, packages) ==
    IF i > Len(deps) THEN [exc |-> "none", value |-> packages]
    ELSE LET step == body(packages, deps[i])
         IN  IF step.exc # "none" THEN step
             ELSE loop(deps, i + 1, step.value)

\* A whole call of constrain: the returned dict, or the exception raised.
constrain(deps) == loop(deps, 1, <<>>)

\* Enter with the dict kept from the call before (a dict that is not local
\* to the call).
EnterKeepsDict ==
    /\ pc = "call"
    /\ constrained_packages' = constrained_packages
    /\ index' = 1
    /\ pc' = "loop"
    /\ exc' = "none"
    /\ UNCHANGED <<dependencies, callVars, cliVars>>

\* constrained_packages = {}
Enter ==
    /\ pc = "call"
    /\ constrained_packages' = <<>>
    /\ index' = 1
    /\ pc' = "loop"
    /\ exc' = "none"
    /\ UNCHANGED <<dependencies, callVars, cliVars>>

\* for package, version in dependencies.items(): ...
Iterate ==
    /\ pc = "loop"
    /\ index <= Len(dependencies)
    /\ LET step == body(constrained_packages, dependencies[index])
       IN  /\ constrained_packages' = step.value
           /\ pc' = IF step.exc # "none" THEN "raised" ELSE "loop"
           /\ index' = IF step.exc # "none" THEN index ELSE index + 1
           /\ exc' = step.exc
    /\ UNCHANGED <<dependencies, callVars, cliVars>>

\* return constrained_packages
Return ==
    /\ pc = "loop"
    /\ index > Len(dependencies)
    /\ pc' = "returned"
    /\ UNCHANGED <<dependencies, index, constrained_packages, exc,
                   callVars, cliVars>>

\* ---------------------------------------------------- generated versions
\* One more component than the caret notation pads to is generated.
MaxComponents == PadDots + 2

\* Components: the numbers up to MaxNumber, numbers with leading zeros, and
\* components that are no number.
Tokens ==
    {str(n) : n \in 0..MaxNumber}
        \cup {<<>>, <<"a">>, <<"0", "7">>, <<"0", "0">>}

\* Components of the versions that have more components than the notation.
FewTokens == {<<>>, <<"a">>, <<"0">>, <<"1">>}

Sigils == {<<>>, <<"^">>, <<"~">>, <<"^", "^">>, <<"~", "~">>}

Bodies ==
    {join(<<".">>, tokens) :
        tokens \in UNION {[1..n -> Tokens] : n \in 0..(MaxComponents - 1)}}
    \cup {join(<<".">>, tokens) : tokens \in [1..MaxComponents -> FewTokens]}

Versions == {sigil \o body_ : sigil \in Sigils, body_ \in Bodies}

NoCli ==
    /\ pyproject = [has_dependencies |-> FALSE, dependencies |-> <<>>,
                    has_dev |-> FALSE, dev_dependencies |-> <<>>]
    /\ include_dev = FALSE
    /\ requirements = [opened |-> FALSE, lines |-> <<>>]
    /\ translated = [regular |-> <<>>, dev |-> <<>>]
    /\ written = 0
    /\ at = "none"

NoCalls ==
    first = [recorded |-> FALSE, dependencies |-> <<>>, exc |-> "none",
             value |-> <<>>]

\* constrain called once on a table of one package.
Init ==
    /\ \E v \in Versions : dependencies = <<[package |-> "pkg", version |-> v]>>
    /\ pc = "call"
    /\ index = 0
    /\ constrained_packages = <<>>
    /\ exc = "none"
    /\ NoCalls
    /\ NoCli

Next == Enter \/ Iterate \/ Return

Spec == Init /\ [][Next]_vars

\* ------------------------------------------------------ generated tables
Packages == {Reserved, "pkg", "lib"}

\* The dicts of at most MaxEntries entries, keys distinct, over versions.
Tables(versions) ==
    {t \in UNION {[1..n -> [package : Packages, version : versions]] :
                     n \in 0..MaxEntries} :
        \A i, j \in 1..Len(t) : t[i].package = t[j].package => i = j}

\* A caret, a tilde and an exact version, and two versions outside the
\* notation: one constrain translates and one it raises on.
TableVersions ==
    {<<"^", "3", ".", "8">>, <<"~", "1", ".", "2">>, <<"1", ".", "2">>,
     <<"^">>, <<"^", ".", ".">>}

\* constrain called once on a table.
InitTables ==
    /\ dependencies \in Tables(TableVersions)
    /\ pc = "call"
    /\ index = 0
    /\ constrained_packages = <<>>
    /\ exc = "none"
    /\ NoCalls
    /\ NoCli

SpecTables == InitTables /\ [][Next]_vars

\* ------------------------------------------------------- repeated calls
CallVersions == {<<"^", "1", ".", "2">>, <<"^", ".", ".">>}

\* The caller calls constrain again, on any table; the first call that ended
\* is remembered with its argument and its outcome.
Call ==
    /\ pc \in {"returned", "raised"}
    /\ first' = IF first.recorded THEN first
                ELSE [recorded |-> TRUE, dependencies |-> dependencies,
                      exc |-> exc,
                      value |-> IF pc = "returned" THEN constrained_packages
                                ELSE <<>>]
    /\ dependencies' \in Tables(CallVersions)
    /\ pc' = "call"
    /\ index' = 0
    /\ exc' = "none"
    /\ UNCHANGED <<constrained_packages, cliVars>>

InitCalls ==
    /\ dependencies \in Tables(CallVersions)
    /\ pc = "call"
    /\ index = 0
    /\ constrained_packages = <<>>
    /\ exc = "none"
    /\ NoCalls
    /\ NoCli

NextCalls == Enter \/ Iterate \/ Return \/ Call

SpecCalls == InitCalls /\ [][NextCalls]_vars

\* -------------------------------------------------------- txtoml command
CliVersions == {<<"^", "1", ".", "2">>, <<"^", ".", ".">>}

\* f"{package}{version}\n"
entryLine(entry) == <<entry.package>> \o entry.version \o <<"\n">>

HeaderLine == <<"# Generated by txtoml on ", "%a %b %d at %T UTC", "\n">>
DependenciesTitle == <<"\n# Dependencies\n">>
DevelopmentTitle == <<"\n# Development dependencies\n">>

write(file, text) == [file EXCEPT !.lines = Append(@, text)]

\* dependencies = {"regular": constrain(pyproject["tool"]["poetry"]["dependencies"])}
\* A missing table is a KeyError; an exception of constrain passes through.
ConstrainRegular ==
    /\ at = "constrain_regular"
    /\ LET r == constrain(pyproject.dependencies)
       IN  IF ~pyproject.has_dependencies
           THEN at' = "error" /\ exc' = "KeyError" /\ UNCHANGED translated
           ELSE IF r.exc # "none"
                THEN at' = "error" /\ exc' = r.exc /\ UNCHANGED translated
                ELSE /\ at' = "open"
                     /\ translated' = [translated EXCEPT !.regular = r.value]
                     /\ UNCHANGED exc
    /\ UNCHANGED <<dependencies, pc, index, constrained_packages, callVars,
                   pyproject, include_dev, requirements, written>>

\* with open(os.path.abspath(output), "w") as requirements:
Open ==
    /\ at = "open"
    /\ requirements' = [opened |-> TRUE, lines |-> <<>>]
    /\ at' = "header"
    /\ UNCHANGED <<constrainVars, callVars, pyproject, include_dev,
                   translated, written>>

\* requirements.write(f"# Generated by txtoml on ...\n")
WriteHeader ==
    /\ at = "header"
    /\ requirements' = write(requirements, HeaderLine)
    /\ at' = "title"
    /\ UNCHANGED <<constrainVars, callVars, pyproject, include_dev,
                   translated, written>>

\* requirements.write("\n# Dependencies\n")
WriteTitle ==
    /\ at = "title"
    /\ requirements' = write(requirements, DependenciesTitle)
    /\ at' = "regular"
    /\ written' = 0
    /\ UNCHANGED <<constrainVars, callVars, pyproject, include_dev, translated>>

\* for package, version in dependencies["regular"].items(): write the line;
\* after the last one, if include_dev:
WriteRegular ==
    /\ at = "regular"
    /\ IF written < Len(translated.regular)
       THEN /\ requirements' =
                   write(requirements, entryLine(translated.regular[written + 1]))
            /\ written' = written + 1
            /\ UNCHANGED at
       ELSE /\ at' = IF include_dev THEN "constrain_dev" ELSE "exit"
            /\ UNCHANGED <<requirements, written>>
    /\ UNCHANGED <<constrainVars, callVars, pyproject, include_dev, translated>>

\* dependencies.update({"dev": constrain(pyproject["tool"]["poetry"]["dev-dependencies"])})
\* An exception here leaves the with block, which closes the file as written.
ConstrainDev ==
    /\ at = "constrain_dev"
    /\ LET r == constrain(pyproject.dev_dependencies)
       IN  IF ~pyproject.has_dev
           THEN at' = "error" /\ exc' = "KeyError" /\ UNCHANGED translated
           ELSE IF r.exc # "none"
                THEN at' = "error" /\ exc' = r.exc /\ UNCHANGED translated
                ELSE /\ at' = "dev_title"
                     /\ translated' = [translated EXCEPT !.dev = r.value]
                     /\ UNCHANGED exc
    /\ UNCHANGED <<dependencies, pc, index, constrained_packages, callVars,
                   pyproject, include_dev, requirements, written>>

\* requirements.write("\n# Development dependencies\n")
WriteDevTitle ==
    /\ at = "dev_title"
    /\ requirements' = write(requirements, DevelopmentTitle)
    /\ at' = "dev"
    /\ written' = 0
    /\ UNCHANGED <<constrainVars, callVars, pyproject, include_dev, translated>>

\* for package, version in dependencies["dev"].items(): write the line
WriteDev ==
    /\ at = "dev"
    /\ IF written < Len(translated.dev)
       THEN /\ requirements' =
                   write(requirements, entryLine(translated.dev[written + 1]))
            /\ written' = written + 1
            /\ UNCHANGED at
       ELSE /\ at' = "exit"
            /\ UNCHANGED <<requirements, written>>
    /\ UNCHANGED <<constrainVars, callVars, pyproject, include_dev, translated>>

\* The manifests toml.load can return: each table present or not.
Manifests ==
    {[has_dependencies |-> hd, dependencies |-> d,
      has_dev |-> hv, dev_dependencies |-> v] :
        hd \in BOOLEAN, hv \in BOOLEAN,
        d \in Tables(CliVersions), v \in Tables(CliVersions)}

InitCli ==
    /\ pyproject \in {m \in Manifests :
                        /\ ~m.has_dependencies => m.dependencies = <<>>
                        /\ ~m.has_dev => m.dev_dependencies = <<>>}
    /\ include_dev \in BOOLEAN
    /\ requirements = [opened |-> FALSE, lines |-> <<>>]
    /\ translated = [regular |-> <<>>, dev |-> <<>>]
    /\ written = 0
    /\ at = "constrain_regular"
    /\ dependencies = <<>>
    /\ pc = "none"
    /\ index = 0
    /\ constrained_packages = <<>>
    /\ exc = "none"
    /\ NoCalls

NextCli ==
    \/ ConstrainRegular \/ Open \/ WriteHeader \/ WriteTitle \/ WriteRegular
    \/ ConstrainDev \/ WriteDevTitle \/ WriteDev

SpecCli == InitCli /\ [][NextCli]_vars

\* ------------------------------------------------ statements: vocabulary
\* What the statements below say is written with the definitions of this
\* section, which read a version by splitting it at its dots; none of them
\* is used by the model of the program.
RECURSIVE Split(_, _)
Split(s, sep) ==
    LET seps == {i \in 1..Len(s) : s[i] = sep}
    IN  IF seps = {} THEN <<s>>
        ELSE LET i == CHOOSE i \in seps : \A j \in seps : i <= j
             IN  <<SubSeq(s, 1, i - 1)>> \o Split(SubSeq(s, i + 1, Len(s)), sep)

IsNumeral(t) == t # <<>> /\ \A i \in 1..Len(t) : t[i] \in Digits

RECURSIVE ValueFrom(_, _)
ValueFrom(acc, t) ==
    IF t = <<>> THEN acc ELSE ValueFrom(acc * 10 + DigitValue(Head(t)), Tail(t))

Value(t) == ValueFrom(0, t)

RECURSIVE Decimal(_)
Decimal(n) ==
    IF n < 10 THEN <<DigitChar(n)>>
    ELSE Decimal(n \div 10) \o <<DigitChar(n % 10)>>

StartsWith(s, prefix) ==
    Len(s) >= Len(prefix) /\ SubSeq(s, 1, Len(prefix)) = prefix

EndsWith(s, suffix) ==
    Len(s) >= Len(suffix)
        /\ SubSeq(s, Len(s) - Len(suffix) + 1, Len(s)) = suffix

Occurrences(s, c) == Cardinality({i \in 1..Len(s) : s[i] = c})

\* A sigil followed by 1 to 3 dot-separated numerals.
HasGrammar(v, sigil) ==
    /\ v # <<>>
    /\ Head(v) = sigil
    /\ LET parts == Split(Tail(v), ".")
       IN  Len(parts) \in 1..3 /\ \A i \in 1..Len(parts) : IsNumeral(parts[i])

ValidCaret(v) == HasGrammar(v, "^")

\* The three numbers of a valid caret version, missing ones being zero.
Padded(v) ==
    LET parts == Split(Tail(v), ".")
    IN  [i \in 1..3 |-> IF i <= Len(parts) THEN Value(parts[i]) ELSE 0]

Dotted(ns) == Decimal(ns[1]) \o <<".">> \o Decimal(ns[2]) \o <<".">> \o Decimal(ns[3])

LexLeq(a, b) ==
    \/ a = b
    \/ \E k \in 1..3 : a[k] < b[k] /\ \A j \in 1..(k - 1) : a[j] = b[j]

\* The call of Spec: its one version, and what it emitted for it.
Ended == pc \in {"returned", "raised"}
Version == dependencies[1].version
EmittedOne == pc = "returned" /\ Len(constrained_packages) = 1
Emitted == constrained_packages[1].version

\* The two sides of an emitted range ">=L, <U", as numbers.
RangeLower ==
    LET comma == CHOOSE i \in 1..Len(Emitted) : Emitted[i] = ","
    IN  Split(SubSeq(Emitted, 3, comma - 1), ".")
RangeUpper ==
    LET comma == CHOOSE i \in 1..Len(Emitted) : Emitted[i] = ","
    IN  Split(SubSeq(Emitted, comma + 3, Len(Emitted)), ".")
Values(parts) == [i \in 1..Len(parts) |-> Value(parts[i])]

\* ------------------------------------------------------------ statements
\* C1: a caret version of 1 to 3 numbers, one of them non-zero, is emitted as
\* ">=L, <U" where U is the padded version with its leftmost non-zero number
\* incremented, the numbers after it zeroed and those before it unchanged.
LeftmostNonZero(ns) == CHOOSE k \in 1..3 : ns[k] > 0 /\ \A j \in 1..(k - 1) : ns[j] = 0
ExpectedUpper(ns) ==
    [i \in 1..3 |-> IF i < LeftmostNonZero(ns) THEN ns[i]
                    ELSE IF i = LeftmostNonZero(ns) THEN ns[i] + 1 ELSE 0]
C1_CaretUpperBound ==
    (Ended /\ ValidCaret(Version) /\ \E k \in 1..3 : Padded(Version)[k] > 0)
        => /\ EmittedOne
           /\ StartsWith(Emitted, <<">", "=">>)
           /\ Occurrences(Emitted, "<") = 1
           /\ EndsWith(Emitted, <<",", " ", "<">>
                                  \o Dotted(ExpectedUpper(Padded(Version))))
C1_Witness ==
    /\ pc = "returned"
    /\ Version = <<"^", "0", ".", "2", ".", "3">>
    /\ Emitted = <<">", "=", "0", ".", "2", ".", "3", ",", " ", "<",
                   "0", ".", "3", ".", "0">>

\* C2: a caret version whose numbers are all zero has no positive number,
\* gets only its last number incremented and is emitted with upper bound 0.0.1.
C2_AllZeroUpperBound ==
    (Ended /\ ValidCaret(Version) /\ \A k \in 1..3 : Padded(Version)[k] = 0)
        => /\ EmittedOne
           /\ positive(numbers(Version)) = {}
           /\ Occurrences(Emitted, "<") = 1
           /\ EndsWith(Emitted, <<",", " ", "<", "0", ".", "0", ".", "1">>)
C2_Witness ==
    /\ pc = "returned"
    /\ Version = <<"^", "0", ".", "0">>
    /\ Emitted = <<">", "=", "0", ".", "0", ".", "0", ",", " ", "<",
                   "0", ".", "0", ".", "1">>

\* C3: the lower bound of a valid caret version is the version without its
\* caret, padded with ".0" to three components and emitted verbatim, and the
\* bound is computed from exactly three numbers.
PaddedText(v) ==
    LET parts == Split(Tail(v), ".")
    IN  Tail(v) \o (IF Len(parts) = 1 THEN <<".", "0", ".", "0">>
                    ELSE IF Len(parts) = 2 THEN <<".", "0">> ELSE <<>>)
C3_LowerBoundVerbatim ==
    (Ended /\ ValidCaret(Version))
        => /\ EmittedOne
           /\ StartsWith(Emitted, <<">", "=">> \o PaddedText(Version)
                                    \o <<",", " ", "<">>)
           /\ Len(numbers(Version)) = 3
C3_Witness ==
    /\ pc = "returned"
    /\ Version = <<"^", "0", "7", ".", "2">>
    /\ StartsWith(Emitted, <<">", "=", "0", "7", ".", "2", ".", "0", ",">>)

\* C4: a version starting with "~" is emitted with "~" replaced by "~=", a
\* version starting with neither "^" nor "~" as "==" followed by itself, and
\* only a version starting with "^" is emitted as a caret range.
TildeReplaced(v) ==
    LET start(j) == j + Cardinality({h \in 1..(j - 1) : v[h] = "~"})
        width(j) == IF v[j] = "~" THEN 2 ELSE 1
    IN  [i \in 1..(Len(v) + Occurrences(v, "~")) |->
           LET j == CHOOSE j \in 1..Len(v) :
                       start(j) <= i /\ i < start(j) + width(j)
           IN  IF i = start(j) THEN v[j] ELSE "="]
C4_PrefixDispatch ==
    Ended =>
        /\ startswith(Version, "~")
             => EmittedOne /\ Emitted = TildeReplaced(Version)
        /\ (~startswith(Version, "~") /\ ~startswith(Version, "^"))
             => EmittedOne /\ Emitted = <<"=", "=">> \o Version
        /\ EmittedOne
             => (StartsWith(Emitted, <<">", "=">>) <=> startswith(Version, "^"))
C4_Witness ==
    /\ pc = "returned"
    /\ Version = <<"~", "1", ".", "2", ".", "3">>
    /\ Emitted = <<"~", "=", "1", ".", "2", ".", "3">>

\* C7: the three numbers of the lower bound emitted for a valid caret
\* version are lexicographically at most the three numbers of its upper bound.
C7_LowerAtMostUpper ==
    (Ended /\ ValidCaret(Version))
        => /\ EmittedOne
           /\ Len(RangeLower) = 3 /\ Len(RangeUpper) = 3
           /\ LexLeq(Values(RangeLower), Values(RangeUpper))
C7_Witness ==
    /\ pc = "returned"
    /\ Version = <<"^", "1", ".", "2", ".", "3">>
    /\ Values(RangeLower) = <<1, 2, 3>>
    /\ Values(RangeUpper) = <<2, 0, 0>>

\* C8: a caret or tilde version that is not the sigil followed by 1 to 3
\* numbers ends the call with InvalidConstraint; no range is emitted for it.
Malformed(v) ==
    /\ startswith(v, "^") \/ startswith(v, "~")
    /\ ~HasGrammar(v, "^")
    /\ ~HasGrammar(v, "~")
C8_InvalidConstraintRaised ==
    (Ended /\ Malformed(Version))
        => pc = "raised" /\ exc = "InvalidConstraint"

\* C5: the dict constrain builds never holds the reserved key "python",
\* whatever its version and wherever it sits in the argument; a table of
\* that key alone translates to the empty dict.
Keys(t) == [i \in 1..Len(t) |-> t[i].package]
C5_ReservedNeverEmitted ==
    /\ \A i \in 1..Len(constrained_packages) :
          constrained_packages[i].package # "python"
    /\ (Ended /\ \A i \in 1..Len(dependencies) :
                    dependencies[i].package = "python")
          => pc = "returned" /\ constrained_packages = <<>>
C5_Witness ==
    /\ pc = "returned"
    /\ Len(dependencies) = 2
    /\ dependencies[2] = [package |-> "python", version |-> <<"^">>]
    /\ Keys(constrained_packages) = <<dependencies[1].package>>

\* C6: on a table of well-formed versions constrain returns a dict whose keys
\* are the keys of the table other than "python", each once, in the order of
\* the table.
WellFormed(v) ==
    \/ HasGrammar(v, "^")
    \/ HasGrammar(v, "~")
    \/ v # <<>> /\ Head(v) \notin {"^", "~"}
RECURSIVE OtherThanPython(_)
OtherThanPython(keys) ==
    IF keys = <<>> THEN <<>>
    ELSE (IF Head(keys) = "python" THEN <<>> ELSE <<Head(keys)>>)
         \o OtherThanPython(Tail(keys))
C6_KeysPreservedInOrder ==
    (Ended /\ \A i \in 1..Len(dependencies) : WellFormed(dependencies[i].version))
        => /\ pc = "returned"
           /\ Keys(constrained_packages) = OtherThanPython(Keys(dependencies))
C6_Witness ==
    /\ pc = "returned"
    /\ Keys(dependencies) = <<"lib", "pkg">>
    /\ dependencies[1].version = <<"~", "1", ".", "2">>
    /\ dependencies[2].version = <<"^", "3", ".", "8">>
    /\ Keys(constrained_packages) = <<"lib", "pkg">>

\* C9: a call of constrain never changes its argument, and a call on the
\* argument of the first call ends as the first call did, with the same
\* exception or the same returned dict, whatever was called in between.
ArgumentKept == (pc \in {"call", "loop"}) => (dependencies' = dependencies)
C9_Pure ==
    /\ [][ArgumentKept]_vars
    /\ []((Ended /\ first.recorded /\ dependencies = first.dependencies)
            => /\ exc = first.exc
               /\ pc = "returned" => constrained_packages = first.value)
C9_Witness ==
    /\ pc = "returned"
    /\ first.recorded
    /\ dependencies = first.dependencies
    /\ Len(dependencies) = 2
    /\ constrained_packages = first.value
    /\ Len(constrained_packages) = 2

\* C10: when the manifest lacks the dependency table, or lacks the
\* development table while --include-dev is given, the command fails with
\* nothing written to the output file.
C10_FailsBeforeWriting ==
    (at = "error"
       /\ (~pyproject.has_dependencies \/ (include_dev /\ ~pyproject.has_dev)))
        => ~requirements.opened /\ requirements.lines = <<>>

====
